---- MODULE Spec2Model ----
(***************************************************************************)
(* Attendance-Tracker: the analytics engine (hooks/useAnalytics) and the   *)
(* session store with the clients that punch in and out of it              *)
(* (services/supabase, hooks/useSessions, EditSessionModal).               *)
(*                                                                         *)
(* Time is counted in whole seconds since the epoch (UTC); a date key      *)
(* "YYYY-MM-DD" is the number of days since the epoch, so that the         *)
(* lexicographic order of the fixed-width keys is the numeric order.       *)
(* Day 0 (1970-01-01) is a Thursday.  Arithmetic on JavaScript numbers is  *)
(* carried out exactly, on fractions.                                      *)
(***************************************************************************)
EXTENDS Integers, Sequences, FiniteSets, TLC

VARIABLES sessions, now, tz, targetHours, result, store, nextId, active, lastOp,
          error, modalError, editingSession, punches, listed, loading,
          inflight, month, targetRow, target

\* of the client whose hook is followed: the error state of useSessions and
\* of the edit modal, the session the modal is open for (<<>> when it is
\* closed), the kind of its last successful punch ("none" before the
\* first), and the sessions, todaySessions and loading states of useSessions
clientVars == <<error, modalError, editingSession, punches, listed, loading>>

\* the fetchSessions responses on their way to that client, and the month
\* it has selected
fetchVars == <<inflight, month>>

\* the monthly_targets table and the target state of the useTargets hook
targetVars == <<targetRow, target>>

vars == <<sessions, now, tz, targetHours, result, store, nextId, active, lastOp,
          error, modalError, editingSession, punches, listed, loading,
          inflight, month, targetRow, target>>

\* null / undefined of a timestamp, a date string or a number
NULL == -1

SecondsPerDay == 24 * 60 * 60

IST_OFFSET == 19800

(***************************************************************************)
(* JavaScript Date, as the engine uses it                                  *)
(***************************************************************************)

\* new Date("YYYY-MM-DD"): a date-only string is midnight UTC of that day
ParseDate(date) == date * SecondsPerDay

\* Date.prototype.toISOString().split('T')[0]: the UTC calendar day
ToISODate(ts) == ts \div SecondsPerDay

\* Date.prototype.getDay() in the browser's zone z (0 = Sunday)
GetDay(ts, z) == (((ts + z) \div SecondsPerDay) + 4) % 7

\* Date.prototype.getHours() / getMinutes() in the browser's zone z
GetHours(ts, z) == ((ts + z) % SecondsPerDay) \div 3600

GetMinutes(ts, z) == ((ts + z) % 3600) \div 60

\* d.setDate(d.getDate() + k): local calendar arithmetic, time of day kept
AddDays(ts, k) == ts + k * SecondsPerDay

\* formatInTimeZone(new Date(), 'Asia/Kolkata', 'yyyy-MM-dd')
getTodayDateIST(ts) == (ts + IST_OFFSET) \div SecondsPerDay

\* Math.round(n / d) for d > 0: nearest integer, a tie goes up
Round(n, d) == (2 * n + d) \div (2 * d)

\* Math.ceil(n / d) for n >= 0, d > 0
Ceil(n, d) == (n + d - 1) \div d

Min(a, b) == IF a < b THEN a ELSE b

\* n.toString().padStart(2, '0') for 0 <= n < 100, as its two digits
PadStart2(n) == <<n \div 10, n % 10>>

(***************************************************************************)
(* Folds                                                                   *)
(***************************************************************************)
RECURSIVE SumSeq(_)
SumSeq(q) == IF q = <<>> THEN 0 ELSE Head(q) + SumSeq(Tail(q))

RECURSIVE SumFun(_, _)
SumFun(f, S) ==
  IF S = {} THEN 0
  ELSE LET x == CHOOSE y \in S : TRUE IN f[x] + SumFun(f, S \ {x})

RECURSIVE SortAsc(_)
SortAsc(S) ==
  IF S = {} THEN <<>>
  ELSE LET m == CHOOSE x \in S : \A y \in S : x <= y
       IN <<m>> \o SortAsc(S \ {m})

Reverse(q) == [i \in 1..Len(q) |-> q[Len(q) + 1 - i]]

Range(q) == {q[i] : i \in 1..Len(q)}

\* s.duration_minutes || 0
DurationOrZero(s) == IF s.duration_minutes = NULL THEN 0 ELSE s.duration_minutes

(***************************************************************************)
(* useAnalytics, step by step                                              *)
(***************************************************************************)

\* sessionsByDate and dailyTotals: the sum of the durations of each date key
dailyTotals(ss) ==
  [d \in {ss[i].date : i \in 1..Len(ss)} |->
     SumSeq([i \in 1..Len(ss) |->
               IF ss[i].date = d THEN DurationOrZero(ss[i]) ELSE 0])]

\* startTimes / endTimes: minutes since local midnight
startTimes(ss, z) ==
  LET q == SelectSeq(ss, LAMBDA s : s.punch_in # NULL)
  IN [i \in 1..Len(q) |-> GetHours(q[i].punch_in, z) * 60 + GetMinutes(q[i].punch_in, z)]

endTimes(ss, z) ==
  LET q == SelectSeq(ss, LAMBDA s : s.punch_out # NULL)
  IN [i \in 1..Len(q) |-> GetHours(q[i].punch_out, z) * 60 + GetMinutes(q[i].punch_out, z)]

\* a plausible slip: the mean cut to the minute below (Math.floor)
avgTime_floor(times) ==
  IF Len(times) > 0
  THEN LET avg == SumSeq(times) \div Len(times)
       IN PadStart2(avg \div 60) \o PadStart2(avg % 60)
  ELSE <<>>

\* avgStartTime / avgEndTime: "HH:MM" as its four digits, <<>> for null
avgTime(times) ==
  IF Len(times) > 0
  THEN LET avg == Round(SumSeq(times), Len(times))
       IN PadStart2(avg \div 60) \o PadStart2(avg % 60)
  ELSE <<>>

dayNames == <<"Sunday", "Monday", "Tuesday", "Wednesday", "Thursday", "Friday", "Saturday">>

\* dayOfWeekTotals[day]: the day totals whose date falls on that weekday,
\* kept as their sum and their number
dayOfWeekSum(dt, z, day) ==
  SumFun(dt, {d \in DOMAIN dt : GetDay(ParseDate(d), z) = day})

dayOfWeekLen(dt, z, day) ==
  Cardinality({d \in DOMAIN dt : GetDay(ParseDate(d), z) = day})

\* the forEach over the seven weekdays; an average is the fraction num/den,
\* bestAvg starts at 0, worstAvg at Infinity (inf)
RECURSIVE bestWorstWalk(_, _, _, _)
bestWorstWalk(dt, z, day, acc) ==
  IF day > 6 THEN acc
  ELSE LET n   == dayOfWeekLen(dt, z, day)
           sum == dayOfWeekSum(dt, z, day)
           better == sum * acc.bestDen > acc.bestNum * n
           worse  == acc.inf \/ sum * acc.worstDen < acc.worstNum * n
           a1 == IF n > 0 /\ better
                 THEN [acc EXCEPT !.bestNum = sum, !.bestDen = n,
                                  !.bestDay = dayNames[day + 1]]
                 ELSE acc
           a2 == IF n > 0 /\ worse
                 THEN [a1 EXCEPT !.worstNum = sum, !.worstDen = n, !.inf = FALSE,
                                 !.worstDay = dayNames[day + 1]]
                 ELSE a1
       IN bestWorstWalk(dt, z, day + 1, a2)

bestWorst(dt, z) ==
  bestWorstWalk(dt, z, 0,
    [bestDay |-> "null", worstDay |-> "null", bestNum |-> 0, bestDen |-> 1,
     worstNum |-> 0, worstDen |-> 1, inf |-> TRUE])

\* Object.keys(dailyTotals).sort().reverse()
sortedDates(dt) == Reverse(SortAsc(DOMAIN dt))

\* the streak loop: count from the most recent date, break at the first
\* date below 6 hours
\* a plausible slip: the loop without its break
RECURSIVE streakWalk_noBreak(_, _, _)
streakWalk_noBreak(dt, dates, i) ==
  IF i > Len(dates) THEN 0
  ELSE (IF dt[dates[i]] >= 360 THEN 1 ELSE 0) + streakWalk_noBreak(dt, dates, i + 1)

\* a plausible slip: the test of the loop turned round
RECURSIVE streakWalk_testReversed(_, _, _)
streakWalk_testReversed(dt, dates, i) ==
  IF i > Len(dates) THEN 0
  ELSE IF dt[dates[i]] <= 360 THEN 1 + streakWalk_testReversed(dt, dates, i + 1)
  ELSE 0

RECURSIVE streakWalk(_, _, _)
streakWalk(dt, dates, i) ==
  IF i > Len(dates) THEN 0
  ELSE IF dt[dates[i]] >= 360 THEN 1 + streakWalk(dt, dates, i + 1)
  ELSE 0

streakOf(dt) == streakWalk(dt, sortedDates(dt), 1)

\* a plausible slip: the loop stops before the hour of the punch-out
hourlyWork_endExclusive(ss, z) ==
  [h \in 0..23 |->
     Len(SelectSeq(ss, LAMBDA s :
           /\ s.punch_in # NULL
           /\ s.punch_out # NULL
           /\ GetHours(s.punch_in, z) <= h
           /\ h < GetHours(s.punch_out, z)))]

\* hourlyWork[h]: the sessions with both punches whose hour range holds h
hourlyWork(ss, z) ==
  [h \in 0..23 |->
     Len(SelectSeq(ss, LAMBDA s :
           /\ s.punch_in # NULL
           /\ s.punch_out # NULL
           /\ GetHours(s.punch_in, z) <= h
           /\ h <= GetHours(s.punch_out, z)))]

\* Math.max(...hourlyWork), taken over the hours 0..h
RECURSIVE maxUpTo(_, _)
maxUpTo(hw, h) ==
  IF h = 0 THEN hw[0]
  ELSE LET m == maxUpTo(hw, h - 1) IN IF hw[h] > m THEN hw[h] ELSE m

\* a plausible slip: Math.round in the place of Math.ceil
productiveLevels_rounded(hw, maxHourlyWork) ==
  [i \in 1..24 |->
     [hour |-> i - 1, count |-> hw[i - 1],
      level |-> IF maxHourlyWork > 0 THEN Round(hw[i - 1] * 4, maxHourlyWork) ELSE 0]]

\* hourlyWork.map((count, hour) => ...)
productiveLevels(hw, maxHourlyWork) ==
  [i \in 1..24 |->
     [hour |-> i - 1, count |-> hw[i - 1],
      level |-> IF maxHourlyWork > 0 THEN Ceil(hw[i - 1] * 4, maxHourlyWork) ELSE 0]]

productiveHoursOf(ss, z) ==
  LET hw == hourlyWork(ss, z)
  IN productiveLevels(hw, maxUpTo(hw, 23))

\* the week windows: the Sunday of the current local week at the current
\* time of day, and the same instant a week earlier
thisWeekStart(t, z) == AddDays(t, 0 - GetDay(t, z))

lastWeekStart(t, z) == AddDays(thisWeekStart(t, z), 0 - 7)

\* the date keys the forEach adds to thisWeekMinutes, to lastWeekMinutes
thisWeekDates(dt, t, z) ==
  {d \in DOMAIN dt : ParseDate(d) >= thisWeekStart(t, z)}

lastWeekDates(dt, t, z) ==
  {d \in DOMAIN dt :
     /\ ~(ParseDate(d) >= thisWeekStart(t, z))
     /\ ParseDate(d) >= lastWeekStart(t, z)
     /\ ParseDate(d) < thisWeekStart(t, z)}

thisWeekMinutes(dt, t, z) == SumFun(dt, thisWeekDates(dt, t, z))

lastWeekMinutes(dt, t, z) == SumFun(dt, lastWeekDates(dt, t, z))

\* a plausible slip: the change taken relative to this week
weekComparisonOf_overThisWeek(tw, lw) ==
  IF tw > 0 THEN Round((tw - lw) * 100, tw) ELSE 0

weekComparisonOf(tw, lw) ==
  IF lw > 0 THEN Round((tw - lw) * 100, lw) ELSE 0

\* a plausible slip: "after 10 AM" taken as the hours after 10
lateArrivals_after10(ss, z) ==
  Len(SelectSeq(ss, LAMBDA s : s.punch_in # NULL /\ GetHours(s.punch_in, z) > 10))

\* a plausible slip: the 9 o'clock hour counted as early
earlyStarts_upTo9(ss, z) ==
  Len(SelectSeq(ss, LAMBDA s : s.punch_in # NULL /\ GetHours(s.punch_in, z) <= 9))

\* lateArrivals / earlyStarts: sessions punched in at or after 10, before 9
lateArrivals(ss, z) ==
  Len(SelectSeq(ss, LAMBDA s : s.punch_in # NULL /\ GetHours(s.punch_in, z) >= 10))

earlyStarts(ss, z) ==
  Len(SelectSeq(ss, LAMBDA s : s.punch_in # NULL /\ GetHours(s.punch_in, z) < 9))

earlyLogouts(dt) == Cardinality({d \in DOMAIN dt : dt[d] < 480 /\ dt[d] > 0})

\* a plausible slip: the comparison turned round
consistentDays_under(dt) == Cardinality({d \in DOMAIN dt : dt[d] < 480})

consistentDays(dt) == Cardinality({d \in DOMAIN dt : dt[d] >= 480})

overtimeDays(dt) == Cardinality({d \in DOMAIN dt : dt[d] >= 600})

Abs(x) == IF x < 0 THEN 0 - x ELSE x

\* the insights, pushed in the order of the code; the text of an insight is
\* kept as the number and the word it is built from
insightsOf(ss, dt, z, streak, weekComparison) ==
  LET late == lateArrivals(ss, z)
      logouts == earlyLogouts(dt)
      workingDays == Cardinality(DOMAIN dt)
      total == SumFun(dt, DOMAIN dt)
  IN    (IF late > 3
         THEN <<[kind |-> "late", type |-> "warning", value |-> late, word |-> ""]>>
         ELSE <<>>)
     \o (IF logouts > 3
         THEN <<[kind |-> "logout", type |-> "warning", value |-> logouts, word |-> ""]>>
         ELSE <<>>)
     \o (IF weekComparison # 0
         THEN <<[kind |-> "week",
                 type |-> IF weekComparison > 0 THEN "success" ELSE "info",
                 value |-> Abs(weekComparison),
                 word |-> IF weekComparison > 0 THEN "more" ELSE "less"]>>
         ELSE <<>>)
     \o (IF workingDays >= 5 /\ total >= 480 * workingDays
         THEN <<[kind |-> "consistency", type |-> "success",
                 value |-> Round(total * 10, 60 * workingDays), word |-> ""]>>
         ELSE <<>>)
     \o (IF streak >= 3
         THEN <<[kind |-> "streak", type |-> "success", value |-> streak, word |-> ""]>>
         ELSE <<>>)

\* a plausible slip: the streak badge pushed before the overtime badge
badgesOf_swapped(ss, dt, z, streak) ==
  <<[id |-> "early-bird", earned |-> earlyStarts(ss, z) >= 5,
     progress |-> Min(earlyStarts(ss, z), 5), target |-> 5],
    [id |-> "consistency", earned |-> consistentDays(dt) >= 10,
     gold |-> consistentDays(dt) >= 10,
     progress |-> Min(consistentDays(dt), 10), target |-> 10],
    [id |-> "streak", earned |-> streak >= 7, gold |-> streak >= 7,
     progress |-> Min(streak, 7), target |-> 7],
    [id |-> "overtime", earned |-> overtimeDays(dt) >= 3,
     progress |-> Min(overtimeDays(dt), 3), target |-> 3]>>

\* the four badges, pushed in the order of the code
badgesOf(ss, dt, z, streak) ==
  <<[id |-> "early-bird", earned |-> earlyStarts(ss, z) >= 5,
     progress |-> Min(earlyStarts(ss, z), 5), target |-> 5],
    [id |-> "consistency", earned |-> consistentDays(dt) >= 10,
     gold |-> consistentDays(dt) >= 10,
     progress |-> Min(consistentDays(dt), 10), target |-> 10],
    [id |-> "overtime", earned |-> overtimeDays(dt) >= 3,
     progress |-> Min(overtimeDays(dt), 3), target |-> 3],
    [id |-> "streak", earned |-> streak >= 7, gold |-> streak >= 7,
     progress |-> Min(streak, 7), target |-> 7]>>

\* weeklyScore = round(progressScore + consistencyScore + streakScore), the
\* three scores brought to the common denominator 420 * targetHours:
\*   progressScore    = min(total / (targetHours * 60) * 50, 50)
\*   consistencyScore = min(consistentDays / 15 * 30, 30)
\*   streakScore      = min(streak / 7 * 20, 20)
\* a plausible slip: the progress score without its cap of 50
progressScoreNum_uncapped(total, T) == total * 50

progressScoreNum(total, T) == Min(total * 50, 50 * 60 * T)

\* a plausible slip: the consistency score taken over 10 days, the target of
\* the badge, instead of 15
consistencyScoreNum_over10(cd) == Min(cd * 45, 30 * 15)

consistencyScoreNum(cd) == Min(cd * 30, 30 * 15)

streakScoreNum(streak) == Min(streak * 20, 20 * 7)

weeklyScoreOf(dt, T, streak) ==
  Round(  7 * progressScoreNum(SumFun(dt, DOMAIN dt), T)
        + 28 * T * consistencyScoreNum(consistentDays(dt))
        + 60 * T * streakScoreNum(streak),
        420 * T)

\* a plausible slip: the thresholds taken as strict
heatmapLevel_strict(minutes) ==
  IF minutes > 600 THEN 4
  ELSE IF minutes > 480 THEN 3
  ELSE IF minutes > 240 THEN 2
  ELSE IF minutes > 0 THEN 1
  ELSE 0

\* the level of a heatmap cell: the thresholds in ascending order
heatmapLevel(minutes) ==
  IF minutes >= 600 THEN 4
  ELSE IF minutes >= 480 THEN 3
  ELSE IF minutes >= 240 THEN 2
  ELSE IF minutes > 0 THEN 1
  ELSE 0

\* a plausible slip: the loop stops at i > 0 and leaves today out
heatmapOf_withoutToday(dt, t, z) ==
  [k \in 1..27 |->
     LET date == AddDays(t, 0 - (28 - k))
         dateStr == ToISODate(date)
         minutes == IF dateStr \in DOMAIN dt THEN dt[dateStr] ELSE 0
     IN [date |-> dateStr, minutes |-> minutes, level |-> heatmapLevel(minutes),
         dayOfWeek |-> GetDay(date, z)]]

\* heatmapData: i = 27 down to 0, the day i days before now
heatmapOf(dt, t, z) ==
  [k \in 1..28 |->
     LET date == AddDays(t, 0 - (28 - k))
         dateStr == ToISODate(date)
         minutes == IF dateStr \in DOMAIN dt THEN dt[dateStr] ELSE 0
     IN [date |-> dateStr, minutes |-> minutes, level |-> heatmapLevel(minutes),
         dayOfWeek |-> GetDay(date, z)]]

\* the result for !sessions || sessions.length === 0
emptyResult ==
  [status |-> "returned",
   insights |-> <<>>, badges |-> <<>>, streak |-> 0, weeklyScore |-> 0,
   heatmapData |-> <<>>, avgStartTime |-> <<>>, avgEndTime |-> <<>>,
   bestDay |-> "null", worstDay |-> "null", productiveHours |-> <<>>,
   weekComparison |-> 0]

\* dayOfWeekTotals[new Date(date).getDay()].push(minutes) with a date key
\* that does not parse: getDay() is NaN, dayOfWeekTotals[NaN] is undefined
\* and the call of push on it raises a TypeError
raisedResult == [emptyResult EXCEPT !.status = "raised"]

notComputed == [emptyResult EXCEPT !.status = "pending"]

bucketingRaises(dt) == NULL \in DOMAIN dt

\* a plausible slip: the engine without its early return for an empty list
useAnalytics_noEarlyReturn(ss, T, t, z) ==
  LET dt == dailyTotals(ss)
  IN IF bucketingRaises(dt) THEN raisedResult
     ELSE LET bw == bestWorst(dt, z)
              streak == streakOf(dt)
              wc == weekComparisonOf(thisWeekMinutes(dt, t, z),
                                     lastWeekMinutes(dt, t, z))
          IN [status |-> "returned",
              insights |-> insightsOf(ss, dt, z, streak, wc),
              badges |-> badgesOf(ss, dt, z, streak),
              streak |-> streak,
              weeklyScore |-> weeklyScoreOf(dt, T, streak),
              heatmapData |-> heatmapOf(dt, t, z),
              avgStartTime |-> avgTime(startTimes(ss, z)),
              avgEndTime |-> avgTime(endTimes(ss, z)),
              bestDay |-> bw.bestDay,
              worstDay |-> bw.worstDay,
              productiveHours |-> productiveHoursOf(ss, z),
              weekComparison |-> wc]

\* useAnalytics(sessions, allSessions, targetHours) at the instant t in zone z
useAnalytics(ss, T, t, z) ==
  IF Len(ss) = 0 THEN emptyResult
  ELSE LET dt == dailyTotals(ss)
       IN IF bucketingRaises(dt) THEN raisedResult
          ELSE LET bw == bestWorst(dt, z)
                   streak == streakOf(dt)
                   wc == weekComparisonOf(thisWeekMinutes(dt, t, z),
                                          lastWeekMinutes(dt, t, z))
               IN [status |-> "returned",
                   insights |-> insightsOf(ss, dt, z, streak, wc),
                   badges |-> badgesOf(ss, dt, z, streak),
                   streak |-> streak,
                   weeklyScore |-> weeklyScoreOf(dt, T, streak),
                   heatmapData |-> heatmapOf(dt, t, z),
                   avgStartTime |-> avgTime(startTimes(ss, z)),
                   avgEndTime |-> avgTime(endTimes(ss, z)),
                   bestDay |-> bw.bestDay,
                   worstDay |-> bw.worstDay,
                   productiveHours |-> productiveHoursOf(ss, z),
                   weekComparison |-> wc]

(***************************************************************************)
(* The inputs of the engine                                                *)
(***************************************************************************)

MaxSessions == 3

MaxRun == 16

\* 2025-11-09, a Sunday, and the days around it
ThisSunday == 7 * 2914 + 3

\* a punch at the wall-clock time tod (seconds after midnight, IST) of a date
AtIST(date, tod) == date * SecondsPerDay + tod - IST_OFFSET

HM(h, m) == h * 3600 + m * 60

\* the clock: a local day and a local time of day in a browser zone
TodaySet == {ThisSunday, ThisSunday + 2}

TimeOfDaySet == {HM(2, 0), HM(12, 0)}

TzSet == {IST_OFFSET, 0}

TargetSet == {1, 100, 200}

Clock(day, tod, z) == day * SecondsPerDay + tod - z

\* the session records a list is drawn from, in the order (date, punch_in)
\* of fetchSessionsByMonth; a record without a date string or without a
\* punch-in is malformed, one without a punch-out is active
CandidateDates == <<NULL, ThisSunday - 1, ThisSunday, ThisSunday + 2>>

CandidateShapes ==
  <<[inTod |-> NULL, outTod |-> NULL, dur |-> 0],
    [inTod |-> HM(8, 30), outTod |-> NULL, dur |-> 0],
    [inTod |-> HM(8, 30), outTod |-> HM(16, 30), dur |-> 480],
    [inTod |-> HM(10, 15), outTod |-> HM(12, 15), dur |-> 120]>>

NumCandidates == Len(CandidateDates) * Len(CandidateShapes)

Candidate(i) ==
  LET date  == CandidateDates[((i - 1) \div Len(CandidateShapes)) + 1]
      shape == CandidateShapes[((i - 1) % Len(CandidateShapes)) + 1]
      day   == IF date = NULL THEN ThisSunday ELSE date
  IN [date |-> date,
      punch_in  |-> IF shape.inTod = NULL THEN NULL ELSE AtIST(day, shape.inTod),
      punch_out |-> IF shape.outTod = NULL THEN NULL ELSE AtIST(day, shape.outTod),
      duration_minutes |-> shape.dur]

RECURSIVE IndexLists(_, _)
IndexLists(n, lo) ==
  IF n = 0 THEN {<<>>}
  ELSE UNION {{<<i>> \o r : r \in IndexLists(n - 1, i)} : i \in lo..NumCandidates}

WithIds(q) == [i \in 1..Len(q) |-> [id |-> i] @@ q[i]]

SessionLists ==
  UNION {{WithIds([k \in 1..Len(ix) |-> Candidate(ix[k])]) : ix \in IndexLists(n, 1)}
         : n \in 0..MaxSessions}

\* day logs: one completed session, punched in at 09:00 IST, on each day of
\* a subset of the days around the week boundary
LogDays == <<ThisSunday - 8, ThisSunday - 7, ThisSunday - 1, ThisSunday, ThisSunday + 2>>

LogMinutes == {200, 400, 500}

DaySession(date, minutes) ==
  [date |-> date,
   punch_in  |-> AtIST(date, HM(9, 0)),
   punch_out |-> AtIST(date, HM(9, 0)) + minutes * 60,
   duration_minutes |-> minutes]

\* the same, punched in at the wall-clock time tod (IST)
DaySessionAt(date, tod, minutes) ==
  [date |-> date,
   punch_in  |-> AtIST(date, tod),
   punch_out |-> AtIST(date, tod) + minutes * 60,
   duration_minutes |-> minutes]

DayLogs ==
  {WithIds(LET present == SelectSeq(LogDays, LAMBDA d : f[d] # NULL)
           IN [k \in 1..Len(present) |-> DaySession(present[k], f[present[k]])])
   : f \in [Range(LogDays) -> LogMinutes \cup {NULL}]}

\* runs: the same minutes, from the same time of day, on each of n
\* consecutive days ending on a Tuesday
RunMinutes == {365, 500, 610, 700}

RunStarts == {HM(8, 0), HM(10, 30)}

Runs ==
  {WithIds([k \in 1..n |-> DaySessionAt(ThisSunday + 2 - n + k, tod, m)])
   : n \in 1..MaxRun, m \in RunMinutes, tod \in RunStarts}

(***************************************************************************)
(* The engine as a state machine: the inputs are drawn, Compute applies    *)
(* useAnalytics to them                                                    *)
(***************************************************************************)

StoreIdle ==
  /\ store = {}
  /\ nextId = 1
  /\ active = <<>>
  /\ lastOp = "none"
  /\ error = <<>>
  /\ modalError = <<>>
  /\ editingSession = <<>>
  /\ punches = <<>>
  /\ listed = <<>>
  /\ loading = FALSE
  /\ inflight = {}
  /\ month = NULL
  /\ targetRow = <<>>
  /\ target = <<>>

InitClock ==
  \E day \in TodaySet, tod \in TimeOfDaySet, z \in TzSet :
    /\ now = Clock(day, tod, z)
    /\ tz = z

Init ==
  /\ sessions \in SessionLists
  /\ InitClock
  /\ targetHours \in TargetSet
  /\ result = notComputed
  /\ StoreIdle

InitDays ==
  /\ sessions \in DayLogs \cup Runs
  /\ InitClock
  /\ targetHours \in TargetSet
  /\ result = notComputed
  /\ StoreIdle

\* a plausible slip: the list of the caller sorted in place, newest first
Compute_sortsInput ==
  /\ result.status = "pending"
  /\ result' = useAnalytics(sessions, targetHours, now, tz)
  /\ sessions' = Reverse(sessions)
  /\ UNCHANGED <<now, tz, targetHours, store, nextId, active, lastOp>>
  /\ UNCHANGED <<clientVars, fetchVars, targetVars>>

Compute ==
  /\ result.status = "pending"
  /\ result' = useAnalytics(sessions, targetHours, now, tz)
  /\ UNCHANGED <<sessions, now, tz, targetHours, store, nextId, active, lastOp>>
  /\ UNCHANGED <<clientVars, fetchVars, targetVars>>

\* a plausible slip: the second invocation reads a clock a day later
Reinvoke_laterClock ==
  /\ result.status = "returned"
  /\ lastOp = "none"
  /\ result' = useAnalytics(sessions, targetHours, AddDays(now, 1), tz)
  /\ lastOp' = "reinvoke"
  /\ UNCHANGED <<sessions, now, tz, targetHours, store, nextId, active>>
  /\ UNCHANGED <<clientVars, fetchVars, targetVars>>

\* the memo evaluated once more, on a render with inputs of the same content
\* and with the clock where it was
Reinvoke ==
  /\ result.status = "returned"
  /\ lastOp = "none"
  /\ result' = useAnalytics(sessions, targetHours, now, tz)
  /\ lastOp' = "reinvoke"
  /\ UNCHANGED <<sessions, now, tz, targetHours, store, nextId, active>>
  /\ UNCHANGED <<clientVars, fetchVars, targetVars>>

Next == Compute \/ Reinvoke

Spec == Init /\ [][Next]_vars

SpecDays == InitDays /\ [][Next]_vars

\* the day logs and the runs again, at one instant: Tuesday 2025-11-11,
\* 12:00 in an IST browser
InitNoon ==
  /\ sessions \in DayLogs \cup Runs
  /\ now = Clock(ThisSunday + 2, HM(12, 0), IST_OFFSET)
  /\ tz = IST_OFFSET
  /\ targetHours \in TargetSet
  /\ result = notComputed
  /\ StoreIdle

\* one invocation on each input
NextNoon == Compute

SpecNoon == InitNoon /\ [][NextNoon]_vars

\* the general lists at one instant, in browsers of three zones: IST, UTC
\* and UTC-4, where a session of the IST morning crosses local midnight
ZoneSet == {IST_OFFSET, 0, 0 - 4 * 3600}

InitZones ==
  /\ sessions \in SessionLists
  /\ \E z \in ZoneSet :
       /\ now = Clock(ThisSunday + 2, HM(12, 0), z)
       /\ tz = z
  /\ targetHours \in {200}
  /\ result = notComputed
  /\ StoreIdle

SpecZones == InitZones /\ [][NextNoon]_vars

(***************************************************************************)
(* The session store and the clients of one user                           *)
(*                                                                         *)
(* store is the sessions table (the rows of the user), active[c] the       *)
(* activeSession state of the useSessions hook of client c: <<>> for null, *)
(* <<row>> for a session.  An operation of the hook runs as one step, its  *)
(* trailing fetchSessions included; the realtime subscription of the other *)
(* clients refetches in a step of its own.                                 *)
(***************************************************************************)

MaxRows == 2

MaxTicks == 3

Clients == {"c1", "c2"}

TickSeconds == {40}

\* Monday 2025-11-10, 09:00:00 IST
StartOfWork == AtIST(ThisSunday + 1, HM(9, 0))

\* the HH:MM values typed into the two fields of the edit modal; NULL is
\* the punch-out field left empty
EditInTimes == {HM(9, 1)}

EditOutTimes == {NULL, HM(9, 1), HM(9, 2)}

\* differenceInMinutes of date-fns: the difference in whole minutes,
\* truncated towards zero
differenceInMinutes(end, start) ==
  IF end >= start THEN (end - start) \div 60 ELSE 0 - ((start - end) \div 60)

\* Math.round of a whole number
calculateDurationMinutes(start, end) ==
  IF start = NULL \/ end = NULL THEN 0
  ELSE Round(differenceInMinutes(end, start), 1)

\* new Date(year, month - 1, day, hours, minutes, 0) read as IST wall-clock
parseTimeForDate(date, tod) == AtIST(date, tod)

isEndAfterStart(start, end) == end > start

\* select ... is('punch_out', null).single(): the row when exactly one row
\* matches; none or several rows are the error PGRST116, answered with null
getActiveSession(rows) ==
  LET open == {r \in rows : r.punch_out = NULL}
  IN IF Cardinality(open) = 1 THEN <<CHOOSE r \in open : TRUE>> ELSE <<>>

RowWithId(rows, id) == CHOOSE r \in rows : r.id = id

HasRow(rows, id) == \E r \in rows : r.id = id

\* update(...).eq('id', id) of the sessions table
UpdateRow(rows, id, in, out, dur) ==
  {IF r.id = id
   THEN [r EXCEPT !.punch_in = in, !.punch_out = out, !.duration_minutes = dur]
   ELSE r : r \in rows}

\* fetchSessions of client c against the rows: setActiveSession(active)
Fetched(c, rows) == [active EXCEPT ![c] = getActiveSession(rows)]

\* the months of the month selector that the rows of the model fall in
Months == {"2025-10", "2025-11"}

\* the day number of `${monthYear}-01`
monthStartDate(monthYear) ==
  IF monthYear = "2025-10" THEN ThisSunday - 39 ELSE ThisSunday - 8

\* new Date(year, month, 0).getDate()
monthLastDay(monthYear) == IF monthYear = "2025-10" THEN 31 ELSE 30

\* format(getNowIST(), 'yyyy-MM'), for a clock in October or November 2025
getCurrentMonthYear(ts) ==
  IF getTodayDateIST(ts) >= monthStartDate("2025-11") THEN "2025-11"
  ELSE "2025-10"

\* the rows with startDate <= date <= endDate; a set stands for the list,
\* which the query orders by date and punch_in
fetchSessionsByMonth(rows, monthYear) ==
  {r \in rows : /\ r.date >= monthStartDate(monthYear)
                /\ r.date <= monthStartDate(monthYear) + monthLastDay(monthYear) - 1}

fetchTodaySessions(rows, ts) == {r \in rows : r.date = getTodayDateIST(ts)}

EngineIdle ==
  /\ sessions = <<>>
  /\ targetHours = 200
  /\ tz = IST_OFFSET
  /\ result = notComputed

\* err.message of a failed remote call
FailureMessage == "remote call failed"

\* no fetch on its way, the month of the clock selected, no target stored
FetchIdle ==
  /\ inflight = {}
  /\ month = getCurrentMonthYear(StartOfWork)
  /\ targetRow = <<>>
  /\ target = <<>>

InitStore ==
  /\ store = {}
  /\ nextId = 1
  /\ active = [c \in Clients |-> <<>>]
  /\ lastOp = "none"
  /\ error = "null"
  /\ modalError = ""
  /\ editingSession = <<>>
  /\ punches = "none"
  /\ listed = [sessions |-> {}, todaySessions |-> {}]
  /\ loading = FALSE
  /\ FetchIdle
  /\ now = StartOfWork
  /\ EngineIdle

EngineUnchanged == UNCHANGED <<sessions, targetHours, tz, result>>

\* the clock advances
Tick ==
  /\ \E d \in TickSeconds :
       /\ now + d <= StartOfWork + MaxTicks * d
       /\ now' = now + d
  /\ lastOp' = "tick"
  /\ UNCHANGED <<store, nextId, active>>
  /\ UNCHANGED <<clientVars, fetchVars, targetVars>>
  /\ EngineUnchanged

\* useSessions.punchIn, as the table and activeSession see it: nothing
\* when the client holds an active session
PunchIn(c) ==
  /\ active[c] = <<>>
  /\ nextId <= MaxRows
  /\ LET row == [id |-> nextId, date |-> getTodayDateIST(now), punch_in |-> now,
                 punch_out |-> NULL, duration_minutes |-> 0]
     IN /\ store' = store \cup {row}
        /\ active' = Fetched(c, store \cup {row})
  /\ nextId' = nextId + 1
  /\ lastOp' = "punchIn"
  /\ UNCHANGED <<now, fetchVars, targetVars>>
  /\ EngineUnchanged

\* useSessions.punchOut, as the table and activeSession see it: nothing
\* when the client holds no active session; the duration is taken from the
\* punch-in the client holds.  The update of a row that is gone fails, and
\* activeSession is kept.
PunchOut(c) ==
  /\ active[c] # <<>>
  /\ LET held == active[c][1]
         dur  == calculateDurationMinutes(held.punch_in, now)
     IN IF HasRow(store, held.id)
        THEN /\ store' = UpdateRow(store, held.id,
                                   RowWithId(store, held.id).punch_in, now, dur)
             /\ active' = Fetched(c, store')
             /\ lastOp' = "punchOut"
        ELSE /\ UNCHANGED <<store, active>>
             /\ lastOp' = "punchOutFailed"
  /\ UNCHANGED <<now, nextId, fetchVars, targetVars>>
  /\ EngineUnchanged

\* EditSessionModal.handleSave and useSessions.updateSession for the row id,
\* as the table and activeSession see them, with the punch-in field in and
\* the punch-out field out (NULL for a field left empty)
UpdateSession(c, id, in, out) ==
  /\ HasRow(store, id)
  /\ LET date == RowWithId(store, id).date
         newPunchIn  == parseTimeForDate(date, in)
         newPunchOut == IF out = NULL THEN NULL ELSE parseTimeForDate(date, out)
         dur == IF newPunchOut # NULL
                THEN calculateDurationMinutes(newPunchIn, newPunchOut) ELSE 0
     IN IF in = NULL
        THEN /\ UNCHANGED <<store, active>>
             /\ lastOp' = "updateRejected"
        ELSE IF newPunchOut # NULL /\ ~isEndAfterStart(newPunchIn, newPunchOut)
        THEN /\ UNCHANGED <<store, active>>
             /\ lastOp' = "updateRejected"
        ELSE /\ store' = UpdateRow(store, id, newPunchIn, newPunchOut, dur)
             /\ active' = Fetched(c, store')
             /\ lastOp' = "updateSession"
  /\ UNCHANGED <<now, nextId, fetchVars, targetVars>>
  /\ EngineUnchanged

\* useSessions.deleteSession, as the table and activeSession see it
DeleteSession(c, id) ==
  /\ HasRow(store, id)
  /\ store' = {r \in store : r.id # id}
  /\ active' = Fetched(c, store')
  /\ lastOp' = "deleteSession"
  /\ UNCHANGED <<now, nextId, fetchVars, targetVars>>
  /\ EngineUnchanged

\* the realtime subscription of client c: fetchSessions on any change
Refetch(c) ==
  /\ active[c] # getActiveSession(store)
  /\ active' = Fetched(c, store)
  /\ lastOp' = "refetch"
  /\ UNCHANGED <<store, now, nextId, fetchVars, targetVars>>
  /\ EngineUnchanged

\* several clients on one table: of the state of each hook, activeSession
\* alone is followed
NextStore ==
  \/ Tick
  \/ \E c \in Clients : PunchIn(c) /\ UNCHANGED clientVars
  \/ \E c \in Clients : PunchOut(c) /\ UNCHANGED clientVars
  \/ \E c \in Clients, id \in 1..MaxRows, in \in EditInTimes, out \in EditOutTimes :
       UpdateSession(c, id, in, out) /\ UNCHANGED clientVars
  \/ \E c \in Clients, id \in 1..MaxRows : DeleteSession(c, id) /\ UNCHANGED clientVars
  \/ \E c \in Clients : Refetch(c) /\ UNCHANGED clientVars

SpecStore == InitStore /\ [][NextStore]_vars

(***************************************************************************)
(* One client and its useSessions hook.  A remote call of the hook and the *)
(* state it sets on the answer run as one step; the fetchSessions it then  *)
(* starts reads the table in that step, and its answer is applied in a     *)
(* step of its own, in any order with the answers of the other fetches.    *)
(***************************************************************************)

MaxInflight == 2

\* the client whose hook is followed
Device == "c1"

\* a session of Thursday 2025-10-30, 09:00 to 17:00 IST, in the table from
\* the start
OctRow ==
  [id |-> 0, date |-> ThisSunday - 10,
   punch_in |-> AtIST(ThisSunday - 10, HM(9, 0)),
   punch_out |-> AtIST(ThisSunday - 10, HM(17, 0)),
   duration_minutes |-> 480]

\* the HH:MM values typed into the two fields of the edit modal; NULL is a
\* field left empty
ModalInTimes == {NULL, HM(9, 1)}

ModalOutTimes == {NULL, HM(9, 0), HM(9, 1), HM(9, 2)}

\* what the Promise.all of a fetchSessions of month monthYear reads from the
\* rows; awaited tells whether a click of the PunchButton waits for it
Response(rows, monthYear, ts, awaited) ==
  [sessions |-> fetchSessionsByMonth(rows, monthYear),
   todaySessions |-> fetchTodaySessions(rows, ts),
   active |-> getActiveSession(rows),
   awaited |-> awaited]

\* fetchSessions up to its await: setLoading(true), setError(null), and the
\* three queries on their way
fetchSessions(rows, monthYear, awaited) ==
  /\ Cardinality(inflight \cup {Response(rows, monthYear, now, awaited)})
       <= MaxInflight
  /\ inflight' = inflight \cup {Response(rows, monthYear, now, awaited)}
  /\ loading' = TRUE
  /\ error' = "null"

\* fetchSessions from its await on: setSessions, setTodaySessions,
\* setActiveSession with the answer r, and setLoading(false)
fetchSessionsDone(r) ==
  /\ r \in inflight
  /\ inflight' = inflight \ {r}
  /\ listed' = [sessions |-> r.sessions, todaySessions |-> r.todaySessions]
  /\ active' = [active EXCEPT ![Device] = r.active]
  /\ loading' = FALSE
  /\ UNCHANGED <<store, nextId, now, error, modalError, punches, month>>
  /\ UNCHANGED targetVars
  /\ UNCHANGED <<lastOp, editingSession>>
  /\ EngineUnchanged

\* PunchButton: disabled while the sessions load, and deaf while the
\* punch of an earlier click, its fetchSessions included, is under way
canClick == ~loading /\ ~(\E r \in inflight : r.awaited)

\* SessionList: the sessions on screen, each with its edit and delete
\* buttons; none while the sessions load
shown == IF loading THEN {} ELSE listed.sessions

\* the edit button of a session on screen: the modal opens for it
setEditingSession(session) ==
  /\ session \in shown
  /\ editingSession = <<>>
  /\ editingSession' = <<session>>
  /\ modalError' = ""
  /\ UNCHANGED <<store, nextId, active, now, error, punches, listed, loading>>
  /\ UNCHANGED <<fetchVars, targetVars, lastOp>>
  /\ EngineUnchanged

\* a plausible slip: activeSession cleared before the punch-out is awaited
punchOutFails_clearsFirst ==
  /\ canClick
  /\ active[Device] # <<>>
  /\ error' = FailureMessage
  /\ active' = [active EXCEPT ![Device] = <<>>]
  /\ UNCHANGED <<store, nextId, now, modalError, punches, listed, loading>>
  /\ UNCHANGED <<fetchVars, targetVars>>
  /\ UNCHANGED <<lastOp, editingSession>>
  /\ EngineUnchanged

\* handleClick of the PunchButton while not punched in: useSessions.punchIn
punchIn ==
  /\ canClick
  /\ active[Device] = <<>>
  /\ nextId <= MaxRows
  /\ LET row == [id |-> nextId, date |-> getTodayDateIST(now), punch_in |-> now,
                 punch_out |-> NULL, duration_minutes |-> 0]
     IN /\ store' = store \cup {row}
        /\ active' = [active EXCEPT ![Device] = <<row>>]
        /\ fetchSessions(store \cup {row}, month, TRUE)
  /\ nextId' = nextId + 1
  /\ punches' = "in"
  /\ UNCHANGED <<now, modalError, listed, month>>
  /\ UNCHANGED targetVars
  /\ UNCHANGED <<lastOp, editingSession>>
  /\ EngineUnchanged

\* useSessions.punchIn when the insert fails
punchInFails ==
  /\ canClick
  /\ active[Device] = <<>>
  /\ error' = FailureMessage
  /\ UNCHANGED <<store, nextId, active, now, modalError, punches, listed, loading>>
  /\ UNCHANGED <<fetchVars, targetVars>>
  /\ UNCHANGED <<lastOp, editingSession>>
  /\ EngineUnchanged

\* handleClick of the PunchButton while punched in: useSessions.punchOut.
\* The update of a row that is gone is answered with an error.
punchOut ==
  /\ canClick
  /\ active[Device] # <<>>
  /\ LET held == active[Device][1]
         dur  == calculateDurationMinutes(held.punch_in, now)
     IN IF HasRow(store, held.id)
        THEN /\ store' = UpdateRow(store, held.id,
                                   RowWithId(store, held.id).punch_in, now, dur)
             /\ active' = [active EXCEPT ![Device] = <<>>]
             /\ fetchSessions(store', month, TRUE)
             /\ punches' = "out"
        ELSE /\ error' = FailureMessage
             /\ UNCHANGED <<store, active, punches, loading, inflight>>
  /\ UNCHANGED <<nextId, now, modalError, listed, month>>
  /\ UNCHANGED targetVars
  /\ UNCHANGED <<lastOp, editingSession>>
  /\ EngineUnchanged

\* useSessions.punchOut when the update fails
punchOutFails ==
  /\ canClick
  /\ active[Device] # <<>>
  /\ error' = FailureMessage
  /\ UNCHANGED <<store, nextId, active, now, modalError, punches, listed, loading>>
  /\ UNCHANGED <<fetchVars, targetVars>>
  /\ UNCHANGED <<lastOp, editingSession>>
  /\ EngineUnchanged

\* a plausible slip: a punch-out equal to the punch-in let through
validationError_orEqual(date, in, out) ==
  IF in = NULL THEN "Punch-in time is required"
  ELSE IF out # NULL /\ parseTimeForDate(date, out) < parseTimeForDate(date, in)
       THEN "Punch-out time must be after punch-in time"
       ELSE ""

\* the two checks of EditSessionModal.handleSave: the message set, "" when
\* the fields pass
validationError(date, in, out) ==
  IF in = NULL THEN "Punch-in time is required"
  ELSE IF out # NULL
          /\ ~isEndAfterStart(parseTimeForDate(date, in), parseTimeForDate(date, out))
       THEN "Punch-out time must be after punch-in time"
       ELSE ""

\* the close button of the modal
onClose ==
  /\ editingSession # <<>>
  /\ editingSession' = <<>>
  /\ modalError' = ""
  /\ UNCHANGED <<store, nextId, active, now, error, punches, listed, loading>>
  /\ UNCHANGED <<fetchVars, targetVars, lastOp>>
  /\ EngineUnchanged

\* EditSessionModal.handleSave with the punch-in field in and the
\* punch-out field out, and useSessions.updateSession; the modal closes
\* when the update succeeds
handleSave(in, out) ==
  /\ editingSession # <<>>
  /\ LET session     == editingSession[1]
         newPunchIn  == parseTimeForDate(session.date, in)
         newPunchOut == IF out = NULL THEN NULL
                        ELSE parseTimeForDate(session.date, out)
         dur == IF newPunchOut # NULL
                THEN calculateDurationMinutes(newPunchIn, newPunchOut) ELSE 0
     IN IF validationError(session.date, in, out) # ""
        THEN /\ modalError' = validationError(session.date, in, out)
             /\ UNCHANGED <<store, error, loading, inflight, editingSession>>
        ELSE IF HasRow(store, session.id)
        THEN /\ store' = UpdateRow(store, session.id, newPunchIn, newPunchOut, dur)
             /\ fetchSessions(store', month, FALSE)
             /\ modalError' = ""
             /\ editingSession' = <<>>
        ELSE /\ error' = FailureMessage
             /\ modalError' = FailureMessage
             /\ UNCHANGED <<store, loading, inflight, editingSession>>
  /\ UNCHANGED <<nextId, active, now, punches, listed, month>>
  /\ UNCHANGED targetVars
  /\ UNCHANGED lastOp
  /\ EngineUnchanged

\* useSessions.updateSession when the update fails: the modal shows the
\* message of the error thrown again
updateSessionFails(in, out) ==
  /\ editingSession # <<>>
  /\ validationError(editingSession[1].date, in, out) = ""
  /\ error' = FailureMessage
  /\ modalError' = FailureMessage
  /\ UNCHANGED <<store, nextId, active, now, punches, listed, loading>>
  /\ UNCHANGED <<fetchVars, targetVars>>
  /\ UNCHANGED <<lastOp, editingSession>>
  /\ EngineUnchanged

\* useSessions.deleteSession for the session on screen
deleteSession(session) ==
  /\ session \in shown
  /\ store' = {r \in store : r.id # session.id}
  /\ active' = IF active[Device] # <<>> /\ active[Device][1].id = session.id
               THEN [active EXCEPT ![Device] = <<>>] ELSE active
  /\ fetchSessions(store', month, FALSE)
  /\ UNCHANGED <<nextId, now, modalError, punches, listed, month>>
  /\ UNCHANGED targetVars
  /\ UNCHANGED <<lastOp, editingSession>>
  /\ EngineUnchanged

\* useSessions.deleteSession when the delete fails
deleteSessionFails(session) ==
  /\ session \in shown
  /\ error' = FailureMessage
  /\ UNCHANGED <<store, nextId, active, now, modalError, punches, listed, loading>>
  /\ UNCHANGED <<fetchVars, targetVars>>
  /\ UNCHANGED <<lastOp, editingSession>>
  /\ EngineUnchanged

\* the user's other device punches in or out, and the realtime subscription
\* of the client answers the change with a fetchSessions
subscribeToSessions ==
  /\ \/ /\ nextId <= MaxRows
        /\ store' = store \cup {[id |-> nextId, date |-> getTodayDateIST(now),
                                 punch_in |-> now, punch_out |-> NULL,
                                 duration_minutes |-> 0]}
        /\ nextId' = nextId + 1
     \/ /\ \E r \in store :
             /\ r.punch_out = NULL
             /\ store' = UpdateRow(store, r.id, r.punch_in, now,
                                   calculateDurationMinutes(r.punch_in, now))
        /\ UNCHANGED nextId
  /\ fetchSessions(store', month, FALSE)
  /\ UNCHANGED <<active, now, modalError, punches, listed, month>>
  /\ UNCHANGED targetVars
  /\ UNCHANGED <<lastOp, editingSession>>
  /\ EngineUnchanged

\* MonthSelector: another month selected, and the effect of useSessions
\* runs the fetchSessions of that month
setSelectedMonth(monthYear) ==
  /\ monthYear # month
  /\ month' = monthYear
  /\ fetchSessions(store, monthYear, FALSE)
  /\ UNCHANGED <<store, nextId, active, now, modalError, punches, listed>>
  /\ UNCHANGED targetVars
  /\ UNCHANGED <<lastOp, editingSession>>
  /\ EngineUnchanged

\* the hook mounted: its first fetchSessions is on its way
InitHook ==
  /\ store = {OctRow}
  /\ nextId = 1
  /\ active = [c \in Clients |-> <<>>]
  /\ lastOp = "none"
  /\ error = "null"
  /\ modalError = ""
  /\ editingSession = <<>>
  /\ punches = "none"
  /\ listed = [sessions |-> {}, todaySessions |-> {}]
  /\ loading = TRUE
  /\ month = getCurrentMonthYear(StartOfWork)
  /\ inflight = {Response({OctRow}, getCurrentMonthYear(StartOfWork),
                          StartOfWork, FALSE)}
  /\ targetRow = <<>>
  /\ target = <<>>
  /\ now = StartOfWork
  /\ EngineIdle

\* the client alone on the table, within one reading of the clock
NextSolo ==
  \/ punchIn
  \/ punchInFails
  \/ punchOut
  \/ punchOutFails
  \/ \E session \in shown : setEditingSession(session)
  \/ onClose
  \/ \E in \in ModalInTimes, out \in ModalOutTimes : handleSave(in, out)
  \/ \E in \in ModalInTimes, out \in ModalOutTimes : updateSessionFails(in, out)
  \/ \E session \in shown : deleteSession(session)
  \/ \E session \in shown : deleteSessionFails(session)
  \/ \E r \in inflight : fetchSessionsDone(r)

SpecSolo == InitHook /\ [][NextSolo]_vars

\* the client alone on the table and with one session of the month at a
\* time: it punches in again only after it deleted the session
NextModal ==
  \/ punchIn /\ fetchSessionsByMonth(store, month) = {}
  \/ punchOut
  \/ \E session \in shown : setEditingSession(session)
  \/ onClose
  \/ \E in \in ModalInTimes, out \in ModalOutTimes : handleSave(in, out)
  \/ \E session \in shown : deleteSession(session)
  \/ \E r \in inflight : fetchSessionsDone(r)

SpecModal == InitHook /\ [][NextModal]_vars

\* the same client, any of whose remote calls may fail
NextFailures ==
  \/ NextModal
  \/ punchInFails
  \/ punchOutFails
  \/ \E in \in ModalInTimes, out \in ModalOutTimes : updateSessionFails(in, out)
  \/ \E session \in shown : deleteSessionFails(session)

SpecFailures == InitHook /\ [][NextFailures]_vars

\* the client and the user's other device, within one reading of the clock
NextFetch ==
  \/ punchIn
  \/ punchOut
  \/ \E session \in shown : deleteSession(session)
  \/ \E r \in inflight : fetchSessionsDone(r)
  \/ \E monthYear \in Months : setSelectedMonth(monthYear)
  \/ subscribeToSessions

SpecFetch == InitHook /\ [][NextFetch]_vars

(***************************************************************************)
(* The monthly target: the monthly_targets table, the useTargets hook and  *)
(* the TargetEditor.  targetRow[m] is the custom_target of the row of      *)
(* month m, NULL when the month has no row; target is the state of the     *)
(* hook, and inflight holds the months whose fetchTarget is on its way.    *)
(* The upsert of a save and the state set on its answer run as one step.   *)
(***************************************************************************)

MaxTypedLen == 4

\* the characters a value typed into the target field is made of
Digits == <<"0", "1", "2", "3", "4", "5", "6", "7", "8", "9">>

IsDigit(ch) == \E i \in 1..10 : Digits[i] = ch

DigitValue(ch) == (CHOOSE i \in 1..10 : Digits[i] = ch) - 1

\* the values typed into the target field, as strings of characters
TypedValues ==
  {str \in {<<>>, <<"0">>, <<"8">>, <<"-", "5">>, <<"0", ".", "5">>,
            <<"1", "e", "3">>, <<"a", "b", "c">>, <<"2", "0", "0">>,
            <<"1", "2", ".", "5">>, <<"1", "2", "0", "0", "0">>} :
     Len(str) <= MaxTypedLen}

\* the digits a string begins with
RECURSIVE LeadingDigits(_)
LeadingDigits(str) ==
  IF str = <<>> \/ ~IsDigit(Head(str)) THEN <<>>
  ELSE <<Head(str)>> \o LeadingDigits(Tail(str))

\* the number a string of digits writes in base 10
RECURSIVE DecimalValue(_)
DecimalValue(digits) ==
  IF digits = <<>> THEN 0
  ELSE 10 * DecimalValue(SubSeq(digits, 1, Len(digits) - 1))
       + DigitValue(digits[Len(digits)])

\* parseInt(value, 10): an optional sign and the digits that follow it, the
\* rest of the string ignored; NaN when no digit follows
parseInt(str) ==
  LET signed == str # <<>> /\ Head(str) \in {"-", "+"}
      digits == LeadingDigits(IF signed THEN Tail(str) ELSE str)
  IN IF digits = <<>> THEN [nan |-> TRUE, value |-> 0]
     ELSE [nan |-> FALSE,
           value |-> IF signed /\ Head(str) = "-"
                     THEN 0 - DecimalValue(digits) ELSE DecimalValue(digits)]

\* fetchMonthlyTarget: the row of the month, the default values when the
\* month has none
fetchMonthlyTarget(rows, monthYear) ==
  IF rows[monthYear] = NULL
  THEN [fixed_target |-> 200, custom_target |-> 200]
  ELSE [fixed_target |-> 200, custom_target |-> rows[monthYear]]

\* App: customTarget || fixedTarget, of which 0 is the falsy number
targetHoursOf(t) == IF t.custom_target = 0 THEN t.fixed_target ELSE t.custom_target

TargetsUnchanged ==
  UNCHANGED <<sessions, now, tz, result, store, nextId, active, lastOp,
              error, modalError, editingSession, punches, listed, loading>>

\* MonthSelector: another month selected, and the effect of useTargets
\* starts the fetchTarget of that month
fetchTargetStart(monthYear) ==
  /\ monthYear # month
  /\ month' = monthYear
  /\ inflight' = inflight \cup {monthYear}
  /\ UNCHANGED <<targetRow, target, targetHours>>
  /\ TargetsUnchanged

\* fetchTarget of month monthYear from its await on: setTarget(data)
fetchTarget(monthYear) ==
  /\ monthYear \in inflight
  /\ inflight' = inflight \ {monthYear}
  /\ target' = fetchMonthlyTarget(targetRow, monthYear)
  /\ targetHours' = targetHoursOf(target')
  /\ UNCHANGED <<targetRow, month>>
  /\ TargetsUnchanged

\* a plausible slip: a value of 0 let through
TargetEditor_handleSave_allowsZero(value) ==
  /\ LET numValue == parseInt(value)
     IN IF numValue.nan \/ numValue.value < 0
        THEN UNCHANGED <<targetRow, target, targetHours>>
        ELSE /\ targetRow' = [targetRow EXCEPT ![month] = numValue.value]
             /\ target' = [fixed_target |-> 200, custom_target |-> numValue.value]
             /\ targetHours' = targetHoursOf(target')
  /\ UNCHANGED <<month, inflight>>
  /\ TargetsUnchanged

\* TargetEditor.handleSave with value in the field, and
\* useTargets.updateCustomTarget with upsertMonthlyTarget
TargetEditor_handleSave(value) ==
  /\ LET numValue == parseInt(value)
     IN IF numValue.nan \/ numValue.value <= 0
        THEN UNCHANGED <<targetRow, target, targetHours>>
        ELSE /\ targetRow' = [targetRow EXCEPT ![month] = numValue.value]
             /\ target' = [fixed_target |-> 200, custom_target |-> numValue.value]
             /\ targetHours' = targetHoursOf(target')
  /\ UNCHANGED <<month, inflight>>
  /\ TargetsUnchanged

\* useTargets mounted, its first fetchTarget on its way; the rows there are
\* were written by upsertMonthlyTarget
InitTargets ==
  /\ targetRow \in [Months -> {NULL, 150}]
  /\ target = [fixed_target |-> 200, custom_target |-> 200]
  /\ targetHours = 200
  /\ month = getCurrentMonthYear(StartOfWork)
  /\ sessions = <<>>
  /\ now = StartOfWork
  /\ tz = IST_OFFSET
  /\ result = notComputed
  /\ store = {}
  /\ nextId = 1
  /\ active = <<>>
  /\ lastOp = "none"
  /\ error = "null"
  /\ modalError = ""
  /\ editingSession = <<>>
  /\ punches = "none"
  /\ listed = [sessions |-> {}, todaySessions |-> {}]
  /\ loading = FALSE
  /\ inflight = {getCurrentMonthYear(StartOfWork)}

NextTargets ==
  \/ \E monthYear \in Months : fetchTargetStart(monthYear)
  \/ \E monthYear \in Months : fetchTarget(monthYear)
  \/ \E value \in TypedValues : TargetEditor_handleSave(value)

SpecTargets == InitTargets /\ [][NextTargets]_vars

(***************************************************************************)
(* Properties of the analytics engine                                      *)
(***************************************************************************)

Returned == result.status = "returned"

\* the day totals of the input, and the local calendar day of the clock
InputTotals == dailyTotals(sessions)

LocalToday == (now + tz) \div SecondsPerDay

BadgeIds == [i \in 1..Len(result.badges) |-> result.badges[i].id]

\* C1, as stated: for every input, the empty list included, heatmapData has
\* exactly 28 entries (all of minutes 0 and level 0 for the empty list).
C1_HeatmapAlways28 ==
  Returned =>
    /\ Len(result.heatmapData) = 28
    /\ Len(sessions) = 0 =>
         \A i \in 1..Len(result.heatmapData) :
           result.heatmapData[i].minutes = 0 /\ result.heatmapData[i].level = 0

\* C1, amended: whenever the engine returns a result for a non-empty list,
\* heatmapData has exactly 28 entries; for the empty list it has none.
C1_Heatmap28WhenNonEmpty ==
  Returned =>
    Len(result.heatmapData) = (IF Len(sessions) = 0 THEN 0 ELSE 28)

C1_Witness ==
  /\ Returned
  /\ Len(sessions) = MaxSessions
  /\ Len(result.heatmapData) = 28
  /\ \E i \in 1..28 : result.heatmapData[i].minutes > 0

\* C2, as stated: for every input, the empty list included, badges has the
\* four entries early-bird, consistency, overtime, streak in that order (none
\* earned and all of progress 0 for the empty list).
C2_BadgesAlways4 ==
  Returned =>
    /\ BadgeIds = <<"early-bird", "consistency", "overtime", "streak">>
    /\ Len(sessions) = 0 =>
         \A i \in 1..Len(result.badges) :
           ~result.badges[i].earned /\ result.badges[i].progress = 0

\* C2, amended: whenever the engine returns a result for a non-empty list,
\* badges has the four entries early-bird, consistency, overtime, streak in
\* that order; for the empty list it has none.
C2_Badges4WhenNonEmpty ==
  Returned =>
    BadgeIds = (IF Len(sessions) = 0 THEN <<>>
                ELSE <<"early-bird", "consistency", "overtime", "streak">>)

C2_Witness ==
  /\ Returned
  /\ Len(sessions) = MaxSessions
  /\ Len(result.badges) = 4
  /\ \E i \in 1..4 : result.badges[i].progress > 0

\* C4: the engine is total: for every session list, malformed records
\* included, it returns a result and never raises.
C4_NeverRaises == result.status # "raised"

\* C5: for every list of non-negative integer durations and every positive
\* targetHours, weeklyScore is an integer between 0 and 100.
C5_WeeklyScoreRange ==
  Returned => result.weeklyScore \in 0..100

C5_Witness ==
  /\ Returned
  /\ result.weeklyScore = 100
  /\ SumFun(InputTotals, DOMAIN InputTotals) > targetHours * 60
  /\ result.streak > 7

\* the number of present dates later than d
DatesAfter(d) == Cardinality({e \in DOMAIN InputTotals : e > d})

IsRunOf(n, minutes) ==
  /\ Len(sessions) = n
  /\ \A i \in 1..n : /\ sessions[i].duration_minutes = minutes
                     /\ sessions[i].date = sessions[1].date + i - 1

RECURSIVE ConsecutiveRun(_)
ConsecutiveRun(m) ==
  IF m \in DOMAIN InputTotals /\ InputTotals[m] >= 360
  THEN 1 + ConsecutiveRun(m - 1)
  ELSE 0

MostRecentDate == CHOOSE m \in DOMAIN InputTotals : \A d \in DOMAIN InputTotals : d <= m

\* C7: streak is the length of the run of consecutive calendar days, ending
\* at and including the most recent day present, on every one of which the
\* day's total is at least 360 minutes.
C7_StreakConsecutiveDays ==
  (Returned /\ Len(sessions) > 0) =>
    result.streak = ConsecutiveRun(MostRecentDate)

\* the most recent Sunday on or before today
WeekSunday == LocalToday - ((LocalToday + 4) % 7)

\* C8: a bucket dated from the most recent Sunday on or before today up to
\* today is summed into thisWeek, one dated in the 7 days before that Sunday
\* into lastWeek, whatever the time of day of the invocation.
C8_WeekWindowsByDate ==
  (Returned /\ Len(sessions) > 0) =>
    \A d \in DOMAIN InputTotals :
      /\ (WeekSunday <= d /\ d <= LocalToday)
           => d \in thisWeekDates(InputTotals, now, tz)
      /\ (WeekSunday - 7 <= d /\ d < WeekSunday)
           => d \in lastWeekDates(InputTotals, now, tz)

InputThisWeek == thisWeekMinutes(InputTotals, now, tz)

InputLastWeek == lastWeekMinutes(InputTotals, now, tz)

WeekInsights == SelectSeq(result.insights, LAMBDA i : i.kind = "week")

\* C9: weekComparison is round((thisWeek - lastWeek) / lastWeek * 100) when
\* lastWeek > 0 and 0 otherwise; the week insight is emitted exactly when it
\* is not 0, as success/"more" when positive and info/"less" when negative
\* (lastWeek 600 and thisWeek 900 give 50 and the success insight).
C9_WeekComparison ==
  (Returned /\ Len(sessions) > 0) =>
    LET wc == result.weekComparison
        lw == InputLastWeek
        tw == InputThisWeek
    IN /\ lw = 0 => wc = 0
       /\ lw > 0 => /\ 2 * lw * wc - lw <= 200 * (tw - lw)
                    /\ 200 * (tw - lw) < 2 * lw * wc + lw
       /\ wc = 0 => WeekInsights = <<>>
       /\ wc > 0 => WeekInsights =
            <<[kind |-> "week", type |-> "success", value |-> wc, word |-> "more"]>>
       /\ wc < 0 => WeekInsights =
            <<[kind |-> "week", type |-> "info", value |-> 0 - wc, word |-> "less"]>>
       /\ (lw = 600 /\ tw = 900) => wc = 50

C9_Witness ==
  /\ Returned
  /\ InputLastWeek = 600
  /\ InputThisWeek = 900
  /\ result.weekComparison = 50
  /\ WeekInsights # <<>>

WeekdayNames == Range(dayNames)

\* C11: whenever the input has at least one day total (at least one
\* session), bestDay and worstDay are both weekday names; each is absent
\* only when there are no day totals at all.
C11_BestWorstNamed ==
  Returned =>
    IF Len(sessions) > 0
    THEN result.bestDay \in WeekdayNames /\ result.worstDay \in WeekdayNames
    ELSE result.bestDay = "null" /\ result.worstDay = "null"

\* the date string punchIn stamps on a session created at the instant of
\* the invocation
WorkDate == getTodayDateIST(now)

\* C12: the 28 heatmap entries are 28 consecutive calendar days in ascending
\* order whose last entry is today's work-date, the date punchIn stamps on a
\* session created at that moment, so the minutes of a session dated today
\* appear in the last entry.
C12_HeatmapEndsOnWorkDate ==
  (Returned /\ Len(sessions) > 0) =>
    LET h == result.heatmapData
    IN /\ Len(h) = 28
       /\ \A i \in 1..27 : h[i + 1].date = h[i].date + 1
       /\ h[28].date = WorkDate
       /\ WorkDate \in DOMAIN InputTotals => h[28].minutes = InputTotals[WorkDate]

\* Scenario C: exactly one day bucket, of 700 minutes, and targetHours = 100
ScenarioC ==
  /\ Returned
  /\ targetHours = 100
  /\ Cardinality(DOMAIN InputTotals) = 1
  /\ \A d \in DOMAIN InputTotals : InputTotals[d] = 700

\* C13, as stated: in Scenario C the consistency and streak components
\* contribute zero, so weeklyScore = round(700/6000*50) = 6.
C13_ScenarioC_Six == ScenarioC => result.weeklyScore = 6

\* C13, amended: in Scenario C the one day counts as a consistent day
\* (700 >= 480) and as a streak of 1 (700 >= 360), so the consistency
\* component is 1/15*30 = 2, the streak component 1/7*20 and
\* weeklyScore = round(35/6 + 2 + 20/7) = 11.
C13_ScenarioC_Eleven ==
  ScenarioC =>
    /\ result.streak = 1
    /\ result.badges[2].progress = 1
    /\ result.weeklyScore = 11

C13_Witness == ScenarioC /\ result.weeklyScore = 11

\* the minutes added to the duration of one session
IncreaseSet == {1, 200}

\* the list with the duration_minutes of its i-th session increased by inc
\* and every other session, and every other field, left as it is
Increased(ss, i, inc) == [ss EXCEPT ![i].duration_minutes = @ + inc]

\* the result of the engine, at the same clock and for the same target, on
\* the increased list
ResultIncreased(i, inc) ==
  useAnalytics(Increased(sessions, i, inc), targetHours, now, tz)

\* C14: for a fixed clock and targetHours, increasing the durationMinutes of
\* one session while leaving every other session unchanged never decreases
\* weeklyScore.
C14_ScoreMonotone ==
  (Returned /\ Len(sessions) > 0) =>
    \A i \in 1..Len(sessions), inc \in IncreaseSet :
      ResultIncreased(i, inc).weeklyScore >= result.weeklyScore

\* an increase that takes a day over 480 minutes and raises the score
C14_Witness ==
  /\ Returned
  /\ \E i \in 1..Len(sessions), inc \in IncreaseSet :
       /\ sessions[i].duration_minutes < 480
       /\ sessions[i].duration_minutes + inc >= 480
       /\ ResultIncreased(i, inc).weeklyScore > result.weeklyScore

\* C15: increasing the durationMinutes of one session while leaving every
\* other session unchanged never decreases streak nor the progress of the
\* Consistency King, Overtime Warrior and Streak Master badges.
C15_StreakAndBadgesMonotone ==
  (Returned /\ Len(sessions) > 0) =>
    \A i \in 1..Len(sessions), inc \in IncreaseSet :
      LET more == ResultIncreased(i, inc)
      IN /\ more.streak >= result.streak
         /\ \A b \in 2..4 : more.badges[b].progress >= result.badges[b].progress

\* an increase that takes the most recent day over 360 minutes and lets the
\* streak run on over the days before it
C15_Witness ==
  /\ Returned
  /\ result.streak = 0
  /\ \E i \in 1..Len(sessions), inc \in IncreaseSet :
       LET more == ResultIncreased(i, inc)
       IN /\ more.streak >= 2
          /\ more.badges[4].progress > result.badges[4].progress

C18_EmptyInput ==
  (result.status # "pending" /\ Len(sessions) = 0) =>
    /\ Returned
    /\ result.streak = 0
    /\ result.weeklyScore = 0
    /\ result.weekComparison = 0
    /\ result.avgStartTime = <<>>
    /\ result.avgEndTime = <<>>
    /\ result.bestDay = "null"
    /\ result.worstDay = "null"
    /\ result.insights = <<>>
    /\ result.badges = <<>>
    /\ result.heatmapData = <<>>
    /\ result.productiveHours = <<>>

C18_Witness ==
  /\ Returned
  /\ Len(sessions) = 0
  /\ Len(result.productiveHours) = 0

\* the counts of the badges, taken from the input
EarlyCount ==
  Cardinality({i \in 1..Len(sessions) :
                 /\ sessions[i].punch_in # NULL
                 /\ GetHours(sessions[i].punch_in, tz) < 9})

DaysAtLeast(m) == Cardinality({d \in DOMAIN InputTotals : InputTotals[d] >= m})

BadgeIs(b, count, goal) ==
  /\ b.target = goal
  /\ b.progress = (IF count < goal THEN count ELSE goal)
  /\ b.earned = (count >= goal)

\* C19: for every non-empty input each badge has progress = min(count,
\* target) and earned exactly when count >= target, where count is the
\* sessions with punch-in local hour < 9 (Early Bird, target 5), the days
\* with total >= 480 (Consistency King, 10), the days with total >= 600
\* (Overtime Warrior, 3), streak (Streak Master, 7); gold equals earned for
\* Consistency King and Streak Master.
C19_BadgeFormulas ==
  (Returned /\ Len(sessions) > 0) =>
    /\ Len(result.badges) = 4
    /\ BadgeIs(result.badges[1], EarlyCount, 5)
    /\ BadgeIs(result.badges[2], DaysAtLeast(480), 10)
    /\ BadgeIs(result.badges[3], DaysAtLeast(600), 3)
    /\ BadgeIs(result.badges[4], result.streak, 7)
    /\ result.badges[2].gold = result.badges[2].earned
    /\ result.badges[4].gold = result.badges[4].earned

\* counts over their targets, and one badge not earned
C19_Witness ==
  /\ Returned
  /\ EarlyCount > 5
  /\ DaysAtLeast(480) > 10
  /\ result.badges[1].earned
  /\ result.badges[2].earned
  /\ ~result.badges[3].earned
  /\ result.badges[4].progress = 7

\* the counts of the insights, taken from the input
LateCount ==
  Cardinality({i \in 1..Len(sessions) :
                 /\ sessions[i].punch_in # NULL
                 /\ GetHours(sessions[i].punch_in, tz) >= 10})

ShortDays ==
  Cardinality({d \in DOMAIN InputTotals : 0 < InputTotals[d] /\ InputTotals[d] < 480})

MeanAtLeast480 ==
  SumFun(InputTotals, DOMAIN InputTotals) >= 480 * Cardinality(DOMAIN InputTotals)

InsightKinds == [i \in 1..Len(result.insights) |-> result.insights[i].kind]

ExpectedKinds ==
     (IF LateCount > 3 THEN <<"late">> ELSE <<>>)
  \o (IF ShortDays > 3 THEN <<"logout">> ELSE <<>>)
  \o (IF result.weekComparison # 0 THEN <<"week">> ELSE <<>>)
  \o (IF Cardinality(DOMAIN InputTotals) >= 5 /\ MeanAtLeast480
      THEN <<"consistency">> ELSE <<>>)
  \o (IF result.streak >= 3 THEN <<"streak">> ELSE <<>>)

LevelOfMinutes(m) ==
  CHOOSE l \in 0..4 :
    /\ l = 0 <=> m = 0
    /\ l = 1 <=> (0 < m /\ m < 240)
    /\ l = 2 <=> (240 <= m /\ m < 480)
    /\ l = 3 <=> (480 <= m /\ m < 600)
    /\ l = 4 <=> m >= 600

\* C21: each heatmap entry's level is the highest threshold its minutes
\* meet (0 for 0 minutes, 1 below 240, 2 from 240, 3 from 480, 4 from 600),
\* and its minutes equal the day total of its date, 0 when the date has no
\* session.
C21_HeatmapLevels ==
  (Returned /\ Len(sessions) > 0) =>
    \A k \in 1..Len(result.heatmapData) :
      LET e == result.heatmapData[k]
      IN /\ e.minutes = (IF e.date \in DOMAIN InputTotals
                         THEN InputTotals[e.date] ELSE 0)
         /\ e.level = LevelOfMinutes(e.minutes)

\* a day exactly on the threshold 600, a day under 240 and a day without a
\* session
C21_Witness ==
  /\ Returned
  /\ \E k \in 1..Len(result.heatmapData) :
       result.heatmapData[k].minutes = 120 /\ result.heatmapData[k].level = 1
  /\ \E k \in 1..Len(result.heatmapData) :
       result.heatmapData[k].minutes = 600 /\ result.heatmapData[k].level = 4
  /\ \E k \in 1..Len(result.heatmapData) :
       result.heatmapData[k].date \notin DOMAIN InputTotals

HourCounts == [h \in 0..23 |-> result.productiveHours[h + 1].count]

MaxCount == CHOOSE m \in {HourCounts[h] : h \in 0..23} : \A h \in 0..23 : HourCounts[h] <= m

\* C22, as stated: for every non-empty input productiveHours has exactly 24
\* entries, entry h describing hour h; every level is in 0..4 and equals
\* ceil(count / maxCount * 4) when maxCount > 0 and 0 otherwise; hence
\* level = 0 exactly when count = 0 and level = 4 exactly when
\* count = maxCount > 0.
C22_Level4OnlyAtMax ==
  (Returned /\ Len(sessions) > 0) =>
    /\ Len(result.productiveHours) = 24
    /\ LET maxCount == MaxCount
       IN \A h \in 0..23 :
            LET e == result.productiveHours[h + 1]
            IN /\ e.hour = h
               /\ e.level \in 0..4
               /\ maxCount = 0 => e.level = 0
               /\ maxCount > 0 =>
                    /\ (e.level - 1) * maxCount < 4 * e.count
                    /\ 4 * e.count <= e.level * maxCount
               /\ e.level = 0 <=> e.count = 0
               /\ e.level = 4 <=> (e.count = maxCount /\ maxCount > 0)

\* C22, amended: for every non-empty input productiveHours has exactly 24
\* entries, entry h describing hour h; every level is in 0..4 and equals
\* ceil(count / maxCount * 4) when maxCount > 0 and 0 otherwise; hence
\* level = 0 exactly when count = 0 and level = 4 exactly when count is
\* more than three quarters of maxCount (count = 4 of maxCount = 5 has
\* level 4).
C22_ProductiveHours ==
  (Returned /\ Len(sessions) > 0) =>
    /\ Len(result.productiveHours) = 24
    /\ LET maxCount == MaxCount
       IN \A h \in 0..23 :
            LET e == result.productiveHours[h + 1]
            IN /\ e.hour = h
               /\ e.level \in 0..4
               /\ maxCount = 0 => e.level = 0
               /\ maxCount > 0 =>
                    /\ (e.level - 1) * maxCount < 4 * e.count
                    /\ 4 * e.count <= e.level * maxCount
               /\ e.level = 0 <=> e.count = 0
               /\ e.level = 4 <=> (4 * e.count > 3 * maxCount /\ maxCount > 0)

\* an hour of 4 sessions out of at most 5 at level 4, an hour at level 1
\* and an hour without a session
C22_Witness ==
  /\ Returned
  /\ Len(result.productiveHours) = 24
  /\ MaxCount = 5
  /\ \E h \in 1..24 : /\ result.productiveHours[h].count = 4
                      /\ result.productiveHours[h].level = 4
  /\ \E h \in 1..24 : result.productiveHours[h].level = 1
  /\ \E h \in 1..24 : result.productiveHours[h].level = 0

\* the minutes since local midnight of an instant
MinuteOfDay(ts) == ((ts + tz) % SecondsPerDay) \div 60

PunchIns == {i \in 1..Len(sessions) : sessions[i].punch_in # NULL}

PunchOuts == {i \in 1..Len(sessions) : sessions[i].punch_out # NULL}

RECURSIVE SumOver(_, _)
SumOver(F(_), S) ==
  IF S = {} THEN 0
  ELSE LET x == CHOOSE y \in S : TRUE IN F(x) + SumOver(F, S \ {x})

\* hhmm is the zero-padded HH:MM of the mean of total over n values,
\* rounded to the nearest minute
IsMeanTime(hhmm, total, n) ==
  /\ Len(hhmm) = 4
  /\ \A k \in 1..4 : hhmm[k] \in 0..9
  /\ LET hh == hhmm[1] * 10 + hhmm[2]
         mm == hhmm[3] * 10 + hhmm[4]
         avg == hh * 60 + mm
     IN /\ hh \in 0..23
        /\ mm \in 0..59
        /\ 2 * n * avg - n <= 2 * total
        /\ 2 * total < 2 * n * avg + n

\* C23: avgStartTime is the mean, rounded to the nearest minute, of the
\* punch-in minutes since midnight of the sessions having a punch-in, as
\* zero-padded HH:MM with HH in 00..23 and MM in 00..59; avgEndTime is the
\* same over the sessions having a punch-out, absent when no session has
\* one.
C23_AverageTimes ==
  (Returned /\ Len(sessions) > 0) =>
    /\ PunchIns # {} =>
         IsMeanTime(result.avgStartTime,
                    SumOver(LAMBDA i : MinuteOfDay(sessions[i].punch_in), PunchIns),
                    Cardinality(PunchIns))
    /\ PunchOuts # {} =>
         IsMeanTime(result.avgEndTime,
                    SumOver(LAMBDA i : MinuteOfDay(sessions[i].punch_out), PunchOuts),
                    Cardinality(PunchOuts))
    /\ PunchOuts = {} => result.avgEndTime = <<>>

\* punch-ins at 08:30 and 10:15, whose mean 09:22.5 is rounded up to 09:23,
\* and an active session, which has no part in avgEndTime
C23_Witness ==
  /\ Returned
  /\ tz = IST_OFFSET
  /\ result.avgStartTime = <<0, 9, 2, 3>>
  /\ PunchOuts # {}
  /\ PunchOuts # PunchIns

WeekdayOf(d) == GetDay(ParseDate(d), tz)

DaysOn(w) == {d \in DOMAIN InputTotals : WeekdayOf(d) = w}

Observed == {w \in 0..6 : DaysOn(w) # {}}

\* the mean day total of weekday a is at most that of weekday b
MeanLeq(a, b) ==
  SumFun(InputTotals, DaysOn(a)) * Cardinality(DaysOn(b))
    <= SumFun(InputTotals, DaysOn(b)) * Cardinality(DaysOn(a))

FirstMax == CHOOSE w \in Observed :
              /\ \A v \in Observed : MeanLeq(v, w)
              /\ \A v \in Observed : (v < w) => ~MeanLeq(w, v)

FirstMin == CHOOSE w \in Observed :
              /\ \A v \in Observed : MeanLeq(w, v)
              /\ \A v \in Observed : (v < w) => ~MeanLeq(v, w)

\* C24: among the weekdays with at least one day total, bestDay is the
\* lowest-numbered weekday whose mean day total is the maximum and worstDay
\* the lowest-numbered weekday whose mean day total is the minimum.
C24_BestWorstFirstExtreme ==
  (Returned /\ Len(sessions) > 0) =>
    /\ result.bestDay = dayNames[FirstMax + 1]
    /\ result.worstDay = dayNames[FirstMin + 1]

\* session i adds 1 to the slot of hour h
Covers(i, h) ==
  /\ sessions[i].punch_in # NULL
  /\ sessions[i].punch_out # NULL
  /\ GetHours(sessions[i].punch_in, tz) <= GetHours(sessions[i].punch_out, tz)
  /\ h \in GetHours(sessions[i].punch_in, tz)..GetHours(sessions[i].punch_out, tz)

CrossesMidnight(i) ==
  /\ sessions[i].punch_in # NULL
  /\ sessions[i].punch_out # NULL
  /\ GetHours(sessions[i].punch_in, tz) > GetHours(sessions[i].punch_out, tz)

\* C25: a session with both punches adds exactly 1 to each hour slot from
\* its punch-in hour through its punch-out hour inclusive and to no other;
\* a session whose punch-in hour exceeds its punch-out hour (crossing
\* midnight) adds to no slot; a session without punch-out adds to no slot.
C25_HourSlots ==
  (Returned /\ Len(sessions) > 0) =>
    \A h \in 0..23 :
      result.productiveHours[h + 1].count =
        Cardinality({i \in 1..Len(sessions) : Covers(i, h)})

\* a session over midnight, an active session and one within the day
C25_Witness ==
  /\ Returned
  /\ \E i \in 1..Len(sessions) : CrossesMidnight(i)
  /\ \E i \in 1..Len(sessions) :
       sessions[i].punch_in # NULL /\ sessions[i].punch_out = NULL
  /\ \E i \in 1..Len(sessions), h \in 0..23 :
       /\ Covers(i, h)
       /\ result.productiveHours[h + 1].count = 1

(***************************************************************************)
(* Properties of the session store                                         *)
(***************************************************************************)

OpenRows == {r \in store : r.punch_out = NULL}

\* C3: after any sequence of punchIn, punchOut, updateSession and
\* deleteSession by one or several clients of a user, the store holds at
\* most one session of that user with punch_out absent.
C3_AtMostOneActive == Cardinality(OpenRows) <= 1

\* C10: every stored session has duration_minutes = 0 while punch_out is
\* absent, and otherwise a non-negative duration_minutes equal to
\* punch_out - punch_in rounded to the nearest whole minute.
C10_DurationRounded ==
  \A r \in store :
    IF r.punch_out = NULL THEN r.duration_minutes = 0
    ELSE /\ r.duration_minutes >= 0
         /\ r.duration_minutes = Round(r.punch_out - r.punch_in, 60)


(***************************************************************************)
(* Properties of the hook of one client                                    *)
(***************************************************************************)

\* the fields of the edit modal that the claim calls invalid: an empty
\* punch-in, or a punch-out that is not later in the day than the punch-in
InvalidFields(in, out) == in = NULL \/ (out # NULL /\ out <= in)

\* C26: a save in the edit modal with an empty punch-in, or with a punch-out
\* that is not strictly after the punch-in on the date of the session, calls
\* no update (no row changes, no fetch starts, the error of the hook is not
\* reset), sets a message in the modal, and leaves the lists and the active
\* session of the hook as they are.
C26_InvalidSaveRejected ==
  [][\A in \in ModalInTimes, out \in ModalOutTimes :
       (InvalidFields(in, out) /\ handleSave(in, out))
         => /\ store' = store
            /\ inflight' = inflight
            /\ loading' = loading
            /\ error' = error
            /\ listed' = listed
            /\ active' = active
            /\ modalError' # ""]_vars

\* a save with a punch-out that is not after the punch-in has been turned
\* down: the modal shows the message, and the session it is open for is in
\* the table as it was, without a punch-out
C26_Witness ==
  /\ modalError = "Punch-out time must be after punch-in time"
  /\ editingSession # <<>>
  /\ editingSession[1] \in store
  /\ editingSession[1].punch_out = NULL

\* C28: in a single client a successful punch-in leaves activeSession the
\* inserted session (no punch-out, duration 0), a successful punch-out
\* leaves it null, and the successful punch-ins and punch-outs alternate,
\* the first being a punch-in: a punch-in never follows a punch-in, and a
\* punch-out always follows a punch-in.
C28_PunchesAlternate ==
  [][/\ punchIn =>
          /\ punches # "in"
          /\ active'[Device] # <<>>
          /\ active'[Device][1] \in store' \ store
          /\ active'[Device][1].punch_out = NULL
          /\ active'[Device][1].duration_minutes = 0
     /\ (punchOut /\ HasRow(store, active[Device][1].id)) =>
          /\ punches = "in"
          /\ active'[Device] = <<>>]_vars

\* C29: when the remote call of punchIn, punchOut, updateSession or
\* deleteSession fails, the hook sets error to the message of the failure,
\* starts no fetch, and leaves sessions, todaySessions and activeSession as
\* they are; the error is thrown again, which the edit modal shows as its
\* own message.
C29_FailureLeavesState ==
  [][(\/ punchInFails
      \/ punchOutFails
      \/ punchOut /\ ~HasRow(store, active[Device][1].id)
      \/ \E in \in ModalInTimes, out \in ModalOutTimes :
           \/ updateSessionFails(in, out)
           \/ /\ ~InvalidFields(in, out)
              /\ handleSave(in, out)
              /\ ~HasRow(store, editingSession[1].id)
      \/ \E session \in shown : deleteSessionFails(session))
       => /\ error' = FailureMessage
          /\ inflight' = inflight
          /\ loading' = loading
          /\ listed' = listed
          /\ active' = active
          /\ store' = store
          /\ modalError' \in {modalError, FailureMessage}]_vars

\* a remote call has failed while the client is punched in and shows a
\* session
C29_Witness ==
  /\ error = FailureMessage
  /\ active[Device] # <<>>
  /\ listed.todaySessions # {}

\* C27: once no fetchSessions is on its way, the sessions of the hook are
\* the rows of the selected month and its activeSession is the active
\* session of the table, in whatever order the fetches were answered.
C27_SettledMatchesStore ==
  inflight = {} =>
    /\ listed.sessions = fetchSessionsByMonth(store, month)
    /\ active[Device] = getActiveSession(store)


(***************************************************************************)
(* Properties of the monthly target                                        *)
(***************************************************************************)

\* the typed values that are not a number, or are a number <= 0
NotPositive == {<<>>, <<"a", "b", "c">>, <<"0">>, <<"-", "5">>}

\* C30: after any fetch of a target and any save of the TargetEditor the
\* targetHours handed to the engine, customTarget or fixedTarget when that
\* is falsy, is a positive number; a save of a value that is not a number or
\* is <= 0 changes neither the row of the month nor the target of the hook;
\* and the fetch of a month without a row yields 200.
C30_TargetPositive ==
  [][/\ targetHours' > 0
     /\ targetHours' = targetHoursOf(target')
     /\ \A value \in TypedValues \cap NotPositive :
          TargetEditor_handleSave(value) => targetRow' = targetRow /\ target' = target
     /\ \A monthYear \in Months :
          (fetchTarget(monthYear) /\ targetRow[monthYear] = NULL)
            => targetHours' = 200]_vars

\* "12.5" was saved for November, October has no row, and the engine is
\* handed 12
C30_Witness ==
  /\ targetRow = [m \in Months |-> IF m = "2025-11" THEN 12 ELSE NULL]
  /\ month = "2025-11"
  /\ targetHours = 12

====
